---- MODULE Spec2Model ----
(***************************************************************************)
(* A model of alembic/context.py: the migration Context (the run loop and  *)
(* the version pointer of the alembic_version table) and the module-level  *)
(* configuration registry (_context_opts, _context, _script).              *)
(*                                                                         *)
(* Python values are modelled as strings: None, False and True are the     *)
(* strings "None", "False" and "True", so that `x is None`, `x is False`   *)
(* and truthiness tests can be written as the code writes them.            *)
(***************************************************************************)
EXTENDS Naturals, Sequences, FiniteSets, TLC

None == "None"
PyFalse == "False"
PyTrue == "True"

\* Python truthiness of a value (`if x:` / `not x`).
Truthy(v) == v \notin {None, PyFalse, ""}

\* ------------------------------------------------------------------ bounds

\* Longest step sequence one run's sequencer yields.
MaxSteps == 3

\* Most keyword arguments given to one configure call.
MaxArgs == 2

\* Most calls of the module-level functions in one behaviour.
MaxCalls == 4

\* Revision identifiers of the script directory: base (None) -> a1 -> b2 (head).
Revs == {"a1", "b2"}
RevId == Revs \cup {None}

\* Live connections, each to its own database, and the dialect of each.
Conns == {"c1", "c2"}
Sinks == {"stdout", "buf"}

VARIABLES
    config,         \* module global `config`
    _script,        \* module global `_script`
    _context_opts,  \* module global `_context_opts` (a dict: a function on its keys)
    _context,       \* module global `_context` (None or a Context record)
    db,             \* per connection: the alembic_version table (exists, rows)
    pc,             \* position of Context.run_migrations ("idle" when none runs)
    current_rev,    \* run_migrations local `current_rev`
    rev,            \* run_migrations local `rev`
    steps,          \* the (prev_rev, rev) pairs the sequencer has yielded in this run
    anchor,         \* what _current_rev() returned to this run
    pre,            \* db when this run started
    trace,          \* what the last call did, in order: statements executed on a
                    \* connection, text written to an output buffer, and the calls
                    \* of _update_current_rev
    result,         \* outcome of the last module-level call
    ncalls          \* how many module-level calls were made

vars == <<config, _script, _context_opts, _context, db, pc, current_rev, rev,
          steps, anchor, pre, trace, result, ncalls>>

registry == <<config, _script, _context_opts, _context>>

\* One more call of a module-level function.
Counted == ncalls < MaxCalls /\ ncalls' = ncalls + 1
runvars == <<pc, current_rev, rev, steps, anchor, pre>>

\* ------------------------------------------------------------ the database

\* The alembic_version table of a fresh database: not created, no rows.
NoTable == [exists |-> FALSE, rows |-> <<>>]

\* One thing done: a statement on a connection, a line of text on an output
\* buffer, or a call of _update_current_rev (tgt "VersionStore").
Ev(tgt, op, old, new) == [tgt |-> tgt, op |-> op, old |-> old, new |-> new]

\* The effect of one statement on the alembic_version table.
SqlApply(op, new, tbl) ==
    CASE op = "create" -> [tbl EXCEPT !.exists = TRUE]
      [] op = "drop"   -> NoTable
      [] op = "delete" -> [tbl EXCEPT !.rows = <<>>]
      [] op = "insert" -> [tbl EXCEPT !.rows = Append(@, new)]
      [] op = "update" -> [tbl EXCEPT !.rows = [i \in DOMAIN @ |-> new]]
      [] OTHER         -> tbl

\* connection.scalar(_version.select()): first column of the first row, or None.
Scalar(tbl) == IF tbl.rows = <<>> THEN None ELSE tbl.rows[1]

\* -------------------------------------------------------------- Context

\* `_context = None`: no Context has been configured.
NoContext == [none |-> None]

\* connection.dialect of a live connection.
DialectOf(connection) == IF connection = "c1" THEN "postgresql" ELSE "mysql"

\* Whether the dialect's implementation assumes transactional DDL when the
\* transactional_ddl option is not given.
DialectTransactional(dialect) == IF dialect = "postgresql" THEN PyTrue ELSE PyFalse

\* ddl.DefaultImpl(dialect, connection, as_sql, transactional_ddl, output_buffer):
\* the explicit transactional_ddl option, else the dialect's default.
Impl(dialect, connection, as_sql, transactional_ddl, output_buffer) ==
    [connection |-> connection,
     as_sql |-> as_sql,
     transactional_ddl |-> IF transactional_ddl # None THEN transactional_ddl
                           ELSE DialectTransactional(dialect),
     output_buffer |-> output_buffer]

\* Context._stdout_connection: a mock engine whose executor hands every
\* construct to impl._exec.
_stdout_connection(connection) == "mock"

\* Context.__init__.
Context(dialect, script, connection, fn, as_sql, output_buffer, transactional_ddl, starting_rev) ==
    LET buf == IF Truthy(output_buffer) THEN output_buffer ELSE "stdout"
    IN  [dialect |-> dialect,
         script |-> script,
         connection |-> IF Truthy(as_sql) THEN _stdout_connection(connection)
                        ELSE connection,
         _migrations_fn |-> fn,
         as_sql |-> as_sql,
         output_buffer |-> buf,
         _start_from_rev |-> starting_rev,
         impl |-> Impl(dialect, connection, as_sql, transactional_ddl, buf)]

\* impl.static_output(text): a line of text on the output buffer.
static_output(ctx, t, text) ==
    Append(t, Ev(ctx.impl.output_buffer, text, None, None))

\* impl._exec(construct): in as_sql mode the statement is written to the output
\* buffer as text; otherwise it is executed on the impl's connection.
\* The result is the database and the trace after it.
_exec(ctx, d, t, op, old, new) ==
    IF Truthy(ctx.impl.as_sql)
    THEN [db |-> d, trace |-> Append(t, Ev(ctx.impl.output_buffer, op, old, new))]
    ELSE [db |-> [d EXCEPT ![ctx.impl.connection] = SqlApply(op, new, @)],
          trace |-> Append(t, Ev(ctx.impl.connection, op, old, new))]

\* A statement executed on self.connection (Table.create / Table.drop): the mock
\* engine of as_sql mode dumps it through impl._exec, a live connection runs it.
ConnExecute(ctx, d, t, op) ==
    IF ctx.connection = "mock"
    THEN _exec(ctx, d, t, op, None, None)
    ELSE [db |-> [d EXCEPT ![ctx.connection] = SqlApply(op, None, @)],
          trace |-> Append(t, Ev(ctx.connection, op, None, None))]

\* Mutant of _update_current_rev: the statement carries the old revision.
_update_current_rev_WritesOld(ctx, d, t, old, new) ==
    LET t1 == Append(t, Ev("VersionStore", "write", old, new))
    IN  IF old = new THEN [db |-> d, trace |-> t1]
        ELSE IF new = None THEN _exec(ctx, d, t1, "delete", None, None)
        ELSE IF old = None THEN _exec(ctx, d, t1, "insert", None, old)
        ELSE _exec(ctx, d, t1, "update", None, old)

\* Mutant of _update_current_rev: a revision is always inserted, never updated.
_update_current_rev_InsertsAlways(ctx, d, t, old, new) ==
    LET t1 == Append(t, Ev("VersionStore", "write", old, new))
    IN  IF old = new THEN [db |-> d, trace |-> t1]
        ELSE IF new = None THEN _exec(ctx, d, t1, "delete", None, None)
        ELSE _exec(ctx, d, t1, "insert", None, new)

\* Mutant of _update_current_rev: no branch for new = None, the row is updated
\* to None instead of deleted.
_update_current_rev_NeverDeletes(ctx, d, t, old, new) ==
    LET t1 == Append(t, Ev("VersionStore", "write", old, new))
    IN  IF old = new THEN [db |-> d, trace |-> t1]
        ELSE IF old = None THEN _exec(ctx, d, t1, "insert", None, new)
        ELSE _exec(ctx, d, t1, "update", None, new)

\* Mutant of _update_current_rev: no test for old = new.
_update_current_rev_NoNoOp(ctx, d, t, old, new) ==
    LET t1 == Append(t, Ev("VersionStore", "write", old, new))
    IN  IF new = None THEN _exec(ctx, d, t1, "delete", None, None)
        ELSE IF old = None THEN _exec(ctx, d, t1, "insert", None, new)
        ELSE _exec(ctx, d, t1, "update", None, new)

\* Context._update_current_rev(old, new). The call itself is recorded in the
\* trace (tgt "VersionStore"), followed by the statement it issues, if any.
_update_current_rev(ctx, d, t, old, new) ==
    LET t1 == Append(t, Ev("VersionStore", "write", old, new))
    IN  IF old = new THEN [db |-> d, trace |-> t1]
        ELSE IF new = None THEN _exec(ctx, d, t1, "delete", None, None)
        ELSE IF old = None THEN _exec(ctx, d, t1, "insert", None, new)
        ELSE _exec(ctx, d, t1, "update", None, new)

\* The sequencer (self._migrations_fn): the revisions a step from `from` may
\* lead to. "chain" is any sequencer that honours the contract (each step starts
\* where the previous one ended); "upgrade" and "downgrade" walk the script
\* directory's revisions base -> a1 -> b2 one step at a time.
Yields(fn, from) ==
    CASE fn = "chain"     -> RevId
      [] fn = "upgrade"   -> IF from = None THEN {"a1"}
                             ELSE IF from = "a1" THEN {"b2"} ELSE {}
      [] fn = "downgrade" -> IF from = "b2" THEN {"a1"}
                             ELSE IF from = "a1" THEN {None} ELSE {}
      [] OTHER            -> {}

\* Outcome of a module-level call.
Ok(op, value) == [op |-> op, status |-> "ok", error |-> None, value |-> value]
Raised(op, error) == [op |-> op, status |-> "error", error |-> error, value |-> None]
Running(op) == [op |-> op, status |-> "running", error |-> None, value |-> None]

SqlMode(ctx) == Truthy(ctx.as_sql)
Transactional(ctx) == Truthy(ctx.impl.transactional_ddl)

\* ------------------------------------------------- Context.run_migrations

\* prev_rev of the step being run.
prev_rev == steps[Len(steps)].from

\* Mutant of _current_rev: the as_sql test is missing, the connection given at
\* configure is read whenever there is one.
_current_rev_ReadsConnection(ctx, d, t) ==
    IF ctx.impl.connection = None
    THEN [error |-> None, value |-> ctx._start_from_rev, db |-> d, trace |-> t]
    ELSE IF Truthy(ctx._start_from_rev)
    THEN [error |-> "CommandError", value |-> None, db |-> d, trace |-> t]
    ELSE [error |-> None, value |-> Scalar(d[ctx.impl.connection]), db |-> d,
          trace |-> Append(t, Ev(ctx.impl.connection, "select", None, None))]

\* Mutant of _current_rev: a starting revision is not refused on a live
\* connection.
_current_rev_NoConflictCheck(ctx, d, t) ==
    IF Truthy(ctx.as_sql)
    THEN [error |-> None, value |-> ctx._start_from_rev, db |-> d, trace |-> t]
    ELSE IF ctx.connection = None
    THEN [error |-> "UnboundExecutionError", value |-> None, db |-> d, trace |-> t]
    ELSE LET r == IF d[ctx.connection].exists THEN [db |-> d, trace |-> t]
                  ELSE ConnExecute(ctx, d, t, "create")
         IN  [error |-> None, value |-> Scalar(r.db[ctx.connection]), db |-> r.db,
              trace |-> Append(r.trace, Ev(ctx.connection, "select", None, None))]

\* Context._current_rev(): the outcome of the read that starts a run.
\* as_sql: the starting revision given at construction, nothing is read.
\* Otherwise a starting revision is an error, the table is created when it
\* does not exist (checkfirst) and the first row is selected.
_current_rev(ctx, d, t) ==
    IF Truthy(ctx.as_sql)
    THEN [error |-> None, value |-> ctx._start_from_rev, db |-> d, trace |-> t]
    ELSE IF Truthy(ctx._start_from_rev)
    THEN [error |-> "CommandError", value |-> None, db |-> d, trace |-> t]
    ELSE IF ctx.connection = None
    THEN [error |-> "UnboundExecutionError", value |-> None, db |-> d, trace |-> t]
    ELSE LET r == IF d[ctx.connection].exists THEN [db |-> d, trace |-> t]
                  ELSE ConnExecute(ctx, d, t, "create")
         IN  [error |-> None, value |-> Scalar(r.db[ctx.connection]), db |-> r.db,
              trace |-> Append(r.trace, Ev(ctx.connection, "select", None, None))]

\* Mutant of RunBegin: the run resumes from the rev the previous run of the
\* context ended its loop with, when there is one.
RunBegin_ResumesFromRev ==
    /\ pc = "idle"
    /\ _context # NoContext
    /\ LET ctx == _context
           t0  == IF SqlMode(ctx) /\ Transactional(ctx)
                  THEN static_output(ctx, <<>>, "BEGIN;") ELSE <<>>
           r   == _current_rev(ctx, db, t0)
       IN  /\ pre' = db
           /\ steps' = <<>>
           /\ current_rev' = PyFalse
           /\ rev' = PyFalse
           /\ db' = r.db
           /\ trace' = r.trace
           /\ anchor' = IF rev # PyFalse THEN rev ELSE r.value
           /\ IF r.error # None
              THEN pc' = "idle" /\ result' = Raised("run_migrations", r.error)
              ELSE pc' = "next" /\ result' = Running("run_migrations")
    /\ Counted
    /\ UNCHANGED registry

\* Mutant of RunBegin: BEGIN; is written whenever the context is in as_sql
\* mode, whatever transactional_ddl says.
RunBegin_BeginAlways ==
    /\ pc = "idle"
    /\ _context # NoContext
    /\ LET ctx == _context
           t0  == IF SqlMode(ctx)
                  THEN static_output(ctx, <<>>, "BEGIN;") ELSE <<>>
           r   == _current_rev(ctx, db, t0)
       IN  /\ pre' = db
           /\ steps' = <<>>
           /\ current_rev' = PyFalse
           /\ rev' = PyFalse
           /\ db' = r.db
           /\ trace' = r.trace
           /\ anchor' = r.value
           /\ IF r.error # None
              THEN pc' = "idle" /\ result' = Raised("run_migrations", r.error)
              ELSE pc' = "next" /\ result' = Running("run_migrations")
    /\ Counted
    /\ UNCHANGED registry

\* Lines 84-89: the BEGIN marker, then _current_rev() and the call of the
\* sequencer with what it returned.
RunBegin ==
    /\ pc = "idle"
    /\ _context # NoContext
    /\ LET ctx == _context
           t0  == IF SqlMode(ctx) /\ Transactional(ctx)
                  THEN static_output(ctx, <<>>, "BEGIN;") ELSE <<>>
           r   == _current_rev(ctx, db, t0)
       IN  /\ pre' = db
           /\ steps' = <<>>
           /\ current_rev' = PyFalse
           /\ rev' = PyFalse
           /\ db' = r.db
           /\ trace' = r.trace
           /\ anchor' = r.value
           /\ IF r.error # None
              THEN pc' = "idle" /\ result' = Raised("run_migrations", r.error)
              ELSE pc' = "next" /\ result' = Running("run_migrations")
    /\ Counted
    /\ UNCHANGED registry

\* The read of a live run fails in the driver.
RunBeginReadFails ==
    /\ pc = "idle"
    /\ _context # NoContext
    /\ ~SqlMode(_context)
    /\ ~Truthy(_context._start_from_rev)
    /\ _context.connection # None
    /\ pre' = db
    /\ steps' = <<>>
    /\ current_rev' = PyFalse
    /\ rev' = PyFalse
    /\ anchor' = None
    /\ trace' = <<>>
    /\ pc' = "idle"
    /\ result' = Raised("run_migrations", "DriverError")
    /\ Counted
    /\ UNCHANGED <<registry, db>>

\* Mutant of LoopNext: the create before the first step does not test as_sql.
LoopNext_CreatesLive ==
    /\ pc = "next"
    /\ Len(steps) < MaxSteps
    /\ LET ctx  == _context
           from == IF steps = <<>> THEN anchor ELSE steps[Len(steps)].to
       IN  \E to \in Yields(ctx._migrations_fn, from) :
             LET first == current_rev = PyFalse
                 cur   == IF first THEN from ELSE current_rev
                 r1    == IF first /\ ~Truthy(cur)
                          THEN ConnExecute(ctx, db, trace, "create")
                          ELSE [db |-> db, trace |-> trace]
                 t2    == IF SqlMode(ctx)
                          THEN Append(r1.trace, Ev(ctx.impl.output_buffer, "header", from, to))
                          ELSE r1.trace
             IN  /\ current_rev' = cur
                 /\ rev' = to
                 /\ steps' = Append(steps, [from |-> from, to |-> to])
                 /\ db' = r1.db
                 /\ trace' = t2
                 /\ pc' = "apply"
    /\ UNCHANGED <<registry, anchor, pre, result, ncalls>>

\* Lines 88-96: the sequencer yields the next step (prev_rev, rev). On the first
\* one current_rev is set and, in as_sql mode from no revision, the table is
\* created; in as_sql mode the step's header is written.
LoopNext ==
    /\ pc = "next"
    /\ Len(steps) < MaxSteps
    /\ LET ctx  == _context
           from == IF steps = <<>> THEN anchor ELSE steps[Len(steps)].to
       IN  \E to \in Yields(ctx._migrations_fn, from) :
             LET first == current_rev = PyFalse
                 cur   == IF first THEN from ELSE current_rev
                 r1    == IF first /\ SqlMode(ctx) /\ ~Truthy(cur)
                          THEN ConnExecute(ctx, db, trace, "create")
                          ELSE [db |-> db, trace |-> trace]
                 t2    == IF SqlMode(ctx)
                          THEN Append(r1.trace, Ev(ctx.impl.output_buffer, "header", from, to))
                          ELSE r1.trace
             IN  /\ current_rev' = cur
                 /\ rev' = to
                 /\ steps' = Append(steps, [from |-> from, to |-> to])
                 /\ db' = r1.db
                 /\ trace' = t2
                 /\ pc' = "apply"
    /\ UNCHANGED <<registry, anchor, pre, result, ncalls>>

\* Mutant of SequencerFails: COMMIT; is written on the way out, as a finally
\* clause would.
SequencerFails_Commits ==
    /\ pc = "next"
    /\ pc' = "idle"
    /\ result' = Raised("run_migrations", "SequencerError")
    /\ trace' = IF SqlMode(_context) /\ Transactional(_context)
                THEN static_output(_context, trace, "COMMIT;") ELSE trace
    /\ UNCHANGED <<registry, db, current_rev, rev, steps, anchor, pre, ncalls>>

\* The sequencer raises instead of yielding: the error leaves run_migrations.
SequencerFails ==
    /\ pc = "next"
    /\ pc' = "idle"
    /\ result' = Raised("run_migrations", "SequencerError")
    /\ UNCHANGED <<registry, db, current_rev, rev, steps, anchor, pre, trace, ncalls>>

\* Line 97: change(**kw) returns; what it did goes through impl._exec.
Apply ==
    /\ pc = "apply"
    /\ LET r == _exec(_context, db, trace, "ddl", prev_rev, rev)
       IN  db' = r.db /\ trace' = r.trace
    /\ pc' = "update"
    /\ UNCHANGED <<registry, current_rev, rev, steps, anchor, pre, result, ncalls>>

\* Mutant of ApplyFails: the pointer is written although change(**kw) raised.
ApplyFails_WritesPointer ==
    /\ pc = "apply"
    /\ LET r == _update_current_rev(_context, db, trace, prev_rev, rev)
       IN  db' = r.db /\ trace' = r.trace
    /\ pc' = "idle"
    /\ result' = Raised("run_migrations", "StepError")
    /\ UNCHANGED <<registry, current_rev, rev, steps, anchor, pre, ncalls>>

\* Line 97: change(**kw) raises; the error leaves run_migrations.
ApplyFails ==
    /\ pc = "apply"
    /\ pc' = "idle"
    /\ result' = Raised("run_migrations", "StepError")
    /\ UNCHANGED <<registry, db, current_rev, rev, steps, anchor, pre, trace, ncalls>>

\* Mutant of Update: the transactional_ddl test is inverted.
Update_InvertedFlag ==
    /\ pc = "update"
    /\ LET ctx == _context
           r   == IF Transactional(ctx)
                  THEN _update_current_rev(ctx, db, trace, prev_rev, rev)
                  ELSE [db |-> db, trace |-> trace]
       IN  db' = r.db /\ trace' = r.trace
    /\ pc' = "next"
    /\ UNCHANGED <<registry, current_rev, rev, steps, anchor, pre, result, ncalls>>

\* Mutant of Update: the write starts from current_rev, the revision the run
\* started from, instead of the step's prev_rev.
Update_FromCurrentRev ==
    /\ pc = "update"
    /\ LET ctx == _context
           r   == IF ~Transactional(ctx)
                  THEN _update_current_rev(ctx, db, trace, current_rev, rev)
                  ELSE [db |-> db, trace |-> trace]
       IN  db' = r.db /\ trace' = r.trace
    /\ pc' = "next"
    /\ UNCHANGED <<registry, current_rev, rev, steps, anchor, pre, result, ncalls>>

\* Lines 98-100: without transactional DDL the pointer is written after the step.
Update ==
    /\ pc = "update"
    /\ LET ctx == _context
           r   == IF ~Transactional(ctx)
                  THEN _update_current_rev(ctx, db, trace, prev_rev, rev)
                  ELSE [db |-> db, trace |-> trace]
       IN  db' = r.db /\ trace' = r.trace
    /\ pc' = "next"
    /\ UNCHANGED <<registry, current_rev, rev, steps, anchor, pre, result, ncalls>>

\* Lines 98-99: the pointer statement of a live connection fails in the driver.
UpdateFails ==
    /\ pc = "update"
    /\ ~Transactional(_context)
    /\ ~SqlMode(_context)
    /\ prev_rev # rev
    /\ trace' = Append(trace, Ev("VersionStore", "write", prev_rev, rev))
    /\ pc' = "idle"
    /\ result' = Raised("run_migrations", "DriverError")
    /\ UNCHANGED <<registry, db, current_rev, rev, steps, anchor, pre, ncalls>>

\* Mutant of RunFinish: the drop is not under `if rev is not False`.
RunFinish_DropUnguarded ==
    /\ pc = "next"
    /\ LET ctx == _context
           r1  == IF rev # PyFalse /\ Transactional(ctx)
                  THEN _update_current_rev(ctx, db, trace, current_rev, rev)
                  ELSE [db |-> db, trace |-> trace]
           r2  == IF SqlMode(ctx) /\ ~Truthy(rev)
                  THEN ConnExecute(ctx, r1.db, r1.trace, "drop")
                  ELSE r1
           t3  == IF SqlMode(ctx) /\ Transactional(ctx)
                  THEN static_output(ctx, r2.trace, "COMMIT;") ELSE r2.trace
       IN  db' = r2.db /\ trace' = t3
    /\ pc' = "idle"
    /\ result' = Ok("run_migrations", None)
    /\ UNCHANGED <<registry, current_rev, rev, steps, anchor, pre, ncalls>>

\* Mutant of RunFinish: the deferred write starts from the last step's
\* prev_rev instead of current_rev.
RunFinish_WritesLastStep ==
    /\ pc = "next"
    /\ LET ctx == _context
           r1  == IF rev # PyFalse /\ Transactional(ctx)
                  THEN _update_current_rev(ctx, db, trace, prev_rev, rev)
                  ELSE [db |-> db, trace |-> trace]
           r2  == IF rev # PyFalse /\ SqlMode(ctx) /\ ~Truthy(rev)
                  THEN ConnExecute(ctx, r1.db, r1.trace, "drop")
                  ELSE r1
           t3  == IF SqlMode(ctx) /\ Transactional(ctx)
                  THEN static_output(ctx, r2.trace, "COMMIT;") ELSE r2.trace
       IN  db' = r2.db /\ trace' = t3
    /\ pc' = "idle"
    /\ result' = Ok("run_migrations", None)
    /\ UNCHANGED <<registry, current_rev, rev, steps, anchor, pre, ncalls>>

\* Lines 102-110, once the sequencer is exhausted: with transactional DDL the
\* one pointer write of the run; in as_sql mode the table is dropped when the
\* run ended at no revision, and the COMMIT marker is written.
RunFinish ==
    /\ pc = "next"
    /\ LET ctx == _context
           r1  == IF rev # PyFalse /\ Transactional(ctx)
                  THEN _update_current_rev(ctx, db, trace, current_rev, rev)
                  ELSE [db |-> db, trace |-> trace]
           r2  == IF rev # PyFalse /\ SqlMode(ctx) /\ ~Truthy(rev)
                  THEN ConnExecute(ctx, r1.db, r1.trace, "drop")
                  ELSE r1
           t3  == IF SqlMode(ctx) /\ Transactional(ctx)
                  THEN static_output(ctx, r2.trace, "COMMIT;") ELSE r2.trace
       IN  db' = r2.db /\ trace' = t3
    /\ pc' = "idle"
    /\ result' = Ok("run_migrations", None)
    /\ UNCHANGED <<registry, current_rev, rev, steps, anchor, pre, ncalls>>

\* Lines 103-104: the pointer statement of a live connection fails in the driver.
RunFinishWriteFails ==
    /\ pc = "next"
    /\ rev # PyFalse
    /\ Transactional(_context)
    /\ ~SqlMode(_context)
    /\ current_rev # rev
    /\ trace' = Append(trace, Ev("VersionStore", "write", current_rev, rev))
    /\ pc' = "idle"
    /\ result' = Raised("run_migrations", "DriverError")
    /\ UNCHANGED <<registry, db, current_rev, rev, steps, anchor, pre, ncalls>>

RunStep ==
    \/ LoopNext
    \/ SequencerFails
    \/ Apply
    \/ ApplyFails
    \/ Update
    \/ UpdateFails
    \/ RunFinish
    \/ RunFinishWriteFails

\* ------------------------------------------------- the module-level registry

\* dict.get(key, default)
Get(d, key, default) == IF key \in DOMAIN d THEN d[key] ELSE default

\* dict.update(kw)
DictUpdate(d, kw) ==
    [k \in DOMAIN d \cup DOMAIN kw |-> IF k \in DOMAIN kw THEN kw[k] ELSE d[k]]

\* The empty dict.
EmptyDict == [k \in {} |-> None]

\* After a module-level call that is not a run: no run is in progress and the
\* locals of the last run are gone.
NoRun ==
    /\ pc' = "idle"
    /\ current_rev' = PyFalse
    /\ rev' = PyFalse
    /\ steps' = <<>>
    /\ anchor' = None
    /\ pre' = db

\* ScriptDirectory._as_rev_number, as the docstrings of get_head_revision and
\* get_revision_argument describe it: "head" is the head revision, "base" is None.
_as_rev_number(id) ==
    IF id = "head" THEN "b2" ELSE IF id = "base" THEN None ELSE id

\* _opts(cfg, script, **kw)
_opts(cfg, script, kw) ==
    /\ pc = "idle"
    /\ _context_opts' = DictUpdate(_context_opts, kw)
    /\ _script' = script
    /\ config' = cfg
    /\ result' = Ok("_opts", None)
    /\ trace' = <<>>
    /\ NoRun
    /\ Counted
    /\ UNCHANGED <<_context, db>>

\* _clear()
_clear ==
    /\ pc = "idle"
    /\ _context' = NoContext
    /\ _script' = None
    /\ _context_opts' = EmptyDict
    /\ result' = Ok("_clear", None)
    /\ trace' = <<>>
    /\ NoRun
    /\ Counted
    /\ UNCHANGED <<config, db>>

\* Mutant of get_context: None is returned when no context is configured.
get_context_ReturnsNone(ctx) ==
    IF ctx = NoContext THEN Ok("get_context", None)
    ELSE Ok("get_context", "context")

\* get_context(): the outcome.
get_context(ctx) ==
    IF ctx = NoContext THEN Raised("get_context", "Exception")
    ELSE Ok("get_context", "context")

\* A call that reads the registry and changes nothing: its outcome is recorded.
Query(outcome) ==
    /\ pc = "idle"
    /\ result' = outcome
    /\ trace' = <<>>
    /\ NoRun
    /\ Counted
    /\ UNCHANGED <<registry, db>>

GetContext == Query(get_context(_context))

\* requires_connection()
requires_connection(opts) ==
    Ok("requires_connection",
       IF Truthy(Get(opts, "as_sql", PyFalse)) THEN PyFalse ELSE PyTrue)

RequiresConnection == Query(requires_connection(_context_opts))

\* get_tag_argument()
get_tag_argument(opts) == Ok("get_tag_argument", Get(opts, "tag", None))

GetTagArgument == Query(get_tag_argument(_context_opts))

\* Mutant of get_starting_revision_argument: CommandError whenever the starting
\* revision at hand is None.
get_starting_revision_argument_RaisesOnNone(ctx, opts, script) ==
    LET op == "get_starting_revision_argument"
        r  == IF ctx # NoContext THEN ctx._start_from_rev
              ELSE Get(opts, "starting_rev", None)
    IN  IF r = None THEN Raised(op, "CommandError")
        ELSE IF script = None THEN Raised(op, "AttributeError")
        ELSE Ok(op, _as_rev_number(r))

\* get_starting_revision_argument(): with a context, its _start_from_rev; else
\* the starting_rev option when the key is present; else CommandError.
\* _script._as_rev_number on a _script that is None raises AttributeError.
get_starting_revision_argument(ctx, opts, script) ==
    LET op == "get_starting_revision_argument"
    IN  IF ctx # NoContext
        THEN IF script = None THEN Raised(op, "AttributeError")
             ELSE Ok(op, _as_rev_number(ctx._start_from_rev))
        ELSE IF "starting_rev" \in DOMAIN opts
        THEN IF script = None THEN Raised(op, "AttributeError")
             ELSE Ok(op, _as_rev_number(opts["starting_rev"]))
        ELSE Raised(op, "CommandError")

GetStartingRevisionArgument ==
    Query(get_starting_revision_argument(_context, _context_opts, _script))

\* run_migrations() with no context: get_context() raises.
RunNoContext ==
    /\ _context = NoContext
    /\ Query(Raised("run_migrations", get_context(_context).error))

\* execute(sql): get_context().execute(sql), which is impl._exec(sql).
Execute ==
    /\ pc = "idle"
    /\ IF get_context(_context).status = "error"
       THEN /\ result' = Raised("execute", get_context(_context).error)
            /\ trace' = <<>>
            /\ db' = db
       ELSE IF ~SqlMode(_context) /\ _context.impl.connection = None
       THEN /\ result' = Raised("execute", "AttributeError")
            /\ trace' = <<>>
            /\ db' = db
       ELSE LET r == _exec(_context, db, <<>>, "sql", None, None)
            IN  /\ result' = Ok("execute", None)
                /\ trace' = r.trace
                /\ db' = r.db
    /\ NoRun
    /\ Counted
    /\ UNCHANGED registry

\* ------------------------------------------------------------- configure

\* url.get_dialect() of sqla_url.make_url(url).
UrlDialect(url) == IF url = "postgresql://" THEN "postgresql" ELSE "mysql"

\* "%s://" % dialect_name
NameUrl(dialect_name) == IF dialect_name = "postgresql" THEN "postgresql://" ELSE "mysql://"

\* Lines 291-300: the dialect, from the connection, else the url, else the
\* dialect name; None when none of the three is given (configure raises).
ConfigureDialect(a) ==
    IF Truthy(a.connection) THEN DialectOf(a.connection)
    ELSE IF Truthy(a.url) THEN UrlDialect(a.url)
    ELSE IF Truthy(a.dialect_name) THEN UrlDialect(NameUrl(a.dialect_name))
    ELSE None

\* d[key] = value when cond, else d.
SetIf(cond, d, key, value) == IF cond THEN DictUpdate(d, key :> value) ELSE d

\* Lines 303-311: the options after configure recorded the arguments given.
ConfigureOpts(opts, a) ==
    LET o1 == SetIf(a.transactional_ddl # None, opts, "transactional_ddl", a.transactional_ddl)
        o2 == SetIf(a.output_buffer # None, o1, "output_buffer", a.output_buffer)
        o3 == SetIf(Truthy(a.starting_rev), o2, "starting_rev", a.starting_rev)
    IN  SetIf(Truthy(a.tag), o3, "tag", a.tag)

\* Lines 312-319: the Context built from the options.
ConfigureContext(opts, script, a) ==
    Context(ConfigureDialect(a), script, a.connection, opts["fn"],
            Get(opts, "as_sql", PyFalse),
            Get(opts, "output_buffer", None),
            Get(opts, "transactional_ddl", None),
            Get(opts, "starting_rev", None))

\* Mutant of configure: the options are recorded before the target is looked at.
configure_RecordsFirst(a) ==
    /\ pc = "idle"
    /\ LET opts == ConfigureOpts(_context_opts, a)
       IN  /\ _context_opts' = opts
           /\ IF ConfigureDialect(a) = None
              THEN /\ result' = Raised("configure", "Exception")
                   /\ _context' = _context
              ELSE IF "fn" \notin DOMAIN opts
              THEN /\ result' = Raised("configure", "KeyError")
                   /\ _context' = _context
              ELSE /\ result' = Ok("configure", None)
                   /\ _context' = ConfigureContext(opts, _script, a)
    /\ trace' = <<>>
    /\ NoRun
    /\ Counted
    /\ UNCHANGED <<config, _script, db>>

\* Mutant of configure: the options of earlier calls are dropped, only those
\* of this call are recorded.
configure_ResetsOptions(a) ==
    /\ pc = "idle"
    /\ IF ConfigureDialect(a) = None
       THEN /\ result' = Raised("configure", "Exception")
            /\ UNCHANGED <<_context_opts, _context>>
       ELSE LET kept == DOMAIN _context_opts \
                           {"transactional_ddl", "output_buffer", "starting_rev", "tag"}
                opts == ConfigureOpts([k \in kept |-> _context_opts[k]], a)
            IN  /\ _context_opts' = opts
                /\ IF "fn" \notin DOMAIN opts
                   THEN /\ result' = Raised("configure", "KeyError")
                        /\ _context' = _context
                   ELSE /\ result' = Ok("configure", None)
                        /\ _context' = ConfigureContext(opts, _script, a)
    /\ trace' = <<>>
    /\ NoRun
    /\ Counted
    /\ UNCHANGED <<config, _script, db>>

\* Mutant of configure: a context that is already installed is kept.
configure_KeepsInstalled(a) ==
    /\ pc = "idle"
    /\ IF ConfigureDialect(a) = None
       THEN /\ result' = Raised("configure", "Exception")
            /\ UNCHANGED <<_context_opts, _context>>
       ELSE LET opts == ConfigureOpts(_context_opts, a)
            IN  /\ _context_opts' = opts
                /\ IF "fn" \notin DOMAIN opts
                   THEN /\ result' = Raised("configure", "KeyError")
                        /\ _context' = _context
                   ELSE /\ result' = Ok("configure", None)
                        /\ _context' = IF _context # NoContext THEN _context
                                       ELSE ConfigureContext(opts, _script, a)
    /\ trace' = <<>>
    /\ NoRun
    /\ Counted
    /\ UNCHANGED <<config, _script, db>>

\* configure(connection, url, dialect_name, transactional_ddl, output_buffer,
\* starting_rev, tag)
configure(a) ==
    /\ pc = "idle"
    /\ IF ConfigureDialect(a) = None
       THEN /\ result' = Raised("configure", "Exception")
            /\ UNCHANGED <<_context_opts, _context>>
       ELSE LET opts == ConfigureOpts(_context_opts, a)
            IN  /\ _context_opts' = opts
                /\ IF "fn" \notin DOMAIN opts
                   THEN /\ result' = Raised("configure", "KeyError")
                        /\ _context' = _context
                   ELSE /\ result' = Ok("configure", None)
                        /\ _context' = ConfigureContext(opts, _script, a)
    /\ trace' = <<>>
    /\ NoRun
    /\ Counted
    /\ UNCHANGED <<config, _script, db>>

\* ------------------------------------------------------- specifications

\* The keyword arguments of configure.
ArgNames ==
    {"connection", "url", "dialect_name", "transactional_ddl", "output_buffer",
     "starting_rev", "tag"}

\* Arguments of configure: at most MaxArgs of them are given (not None).
ConfigureArgs ==
    {a \in [connection : {None, "c1", "c2"},
            url : {None, "postgresql://"},
            dialect_name : {None, "mysql"},
            transactional_ddl : {None, PyFalse},
            output_buffer : {None, "buf"},
            starting_rev : {None, "a1"},
            tag : {None, "t"}] :
        Cardinality({k \in ArgNames : a[k] # None}) <= MaxArgs}

\* Keyword arguments of _opts: fn and as_sql always, the others when given.
Kw(key, values) == {EmptyDict} \cup {key :> v : v \in values}

OptsKw ==
    {("fn" :> "upgrade") @@ ("as_sql" :> s) @@ k2 :
        s \in {PyTrue, PyFalse},
        k2 \in Kw("starting_rev", {"head"})}

\* The module as imported: nothing configured, fresh databases.
Init ==
    /\ config = None
    /\ _script = None
    /\ _context_opts = EmptyDict
    /\ _context = NoContext
    /\ db = [c \in Conns |-> NoTable]
    /\ pc = "idle"
    /\ current_rev = PyFalse
    /\ rev = PyFalse
    /\ steps = <<>>
    /\ anchor = None
    /\ pre = [c \in Conns |-> NoTable]
    /\ trace = <<>>
    /\ result = Ok("import", None)
    /\ ncalls = 0

Next ==
    \/ \E kw \in OptsKw : _opts("cfg", "script", kw)
    \/ \E a \in ConfigureArgs : configure(a)
    \/ _clear
    \/ GetContext
    \/ RequiresConnection
    \/ GetTagArgument
    \/ GetStartingRevisionArgument
    \/ Execute
    \/ RunNoContext
    \/ RunBegin
    \/ RunBeginReadFails
    \/ RunStep

Spec == Init /\ [][Next]_vars

\* The runs of one Context: the registry as _opts and one configure call leave
\* it, with a sequencer that may yield any chain of steps.
RunKw ==
    {("fn" :> "chain") @@ ("as_sql" :> a) : a \in {PyTrue, PyFalse}}

RunArgs ==
    [connection : {None, "c1"},
     url : {None},
     dialect_name : {None, "mysql"},
     transactional_ddl : {None, PyTrue, PyFalse},
     output_buffer : {None},
     starting_rev : RevId,
     tag : {None}]

InitRun ==
    /\ config = "cfg"
    /\ _script = "script"
    /\ \E kw \in RunKw, a \in RunArgs :
          /\ ConfigureDialect(a) # None
          /\ _context_opts = ConfigureOpts(DictUpdate(EmptyDict, kw), a)
          /\ _context = ConfigureContext(_context_opts, _script, a)
    /\ db = [c \in Conns |-> NoTable]
    /\ pc = "idle"
    /\ current_rev = PyFalse
    /\ rev = PyFalse
    /\ steps = <<>>
    /\ anchor = None
    /\ pre = [c \in Conns |-> NoTable]
    /\ trace = <<>>
    /\ result = Ok("configure", None)
    /\ ncalls = 2

NextRun ==
    \/ RunBegin
    \/ RunBeginReadFails
    \/ RunStep

SpecRun == InitRun /\ [][NextRun]_vars

\* Reconfiguration: a context on the connection c1 is installed, as _opts and
\* one configure call leave it; then configure is called again, with either
\* connection and an output buffer or none, the options are cleared, and the
\* active context runs and executes.
ReconfigureInitArgs ==
    {a \in [connection : {"c1"},
            url : {None},
            dialect_name : {None},
            transactional_ddl : {None, PyFalse},
            output_buffer : {None},
            starting_rev : {None, "a1"},
            tag : {None, "t"}] :
        Cardinality({k \in ArgNames : a[k] # None}) <= MaxArgs}

ReconfigureArgs ==
    [connection : Conns,
     url : {None},
     dialect_name : {None},
     transactional_ddl : {None},
     output_buffer : {None, "buf"},
     starting_rev : {None},
     tag : {None}]

InitReconfigure ==
    /\ config = "cfg"
    /\ _script = "script"
    /\ \E kw \in RunKw, a \in ReconfigureInitArgs :
          /\ _context_opts = ConfigureOpts(DictUpdate(EmptyDict, kw), a)
          /\ _context = ConfigureContext(_context_opts, _script, a)
    /\ db = [c \in Conns |-> NoTable]
    /\ pc = "idle"
    /\ current_rev = PyFalse
    /\ rev = PyFalse
    /\ steps = <<>>
    /\ anchor = None
    /\ pre = [c \in Conns |-> NoTable]
    /\ trace = <<>>
    /\ result = Ok("configure", None)
    /\ ncalls = 2

NextReconfigure ==
    \/ \E a \in ReconfigureArgs : configure(a)
    \/ _clear
    \/ Execute
    \/ RunBegin
    \/ RunBeginReadFails
    \/ RunStep

SpecReconfigure == InitReconfigure /\ [][NextReconfigure]_vars

\* ------------------------------------------------------------- properties

\* The last call was a run of the active context and it has ended.
RunEnded == pc = "idle" /\ result.op = "run_migrations" /\ _context # NoContext

RunSucceeded == RunEnded /\ result.status = "ok"

\* The active context executes on a live connection.
Live == _context # NoContext /\ ~SqlMode(_context)

\* The events of the trace that satisfy Test, in order.
Events(Test(_)) == SelectSeq(trace, Test)

IsWrite(e) == e.tgt = "VersionStore"
IsPointerStmt(e) == e.op \in {"insert", "update", "delete"}
IsStorageStmt(e) == e.op \in {"create", "drop"}
IsApply(e) == e.op = "ddl"
IsHeader(e) == e.op = "header"
OnConnection(e) == e.tgt \in Conns
OnSink(e) == e.tgt \in Sinks

\* The calls of _update_current_rev in this run.
Writes == Events(IsWrite)

\* The call write(from, to) of step i.
StepWrite(i) == Ev("VersionStore", "write", steps[i].from, steps[i].to)

\* Positions of the trace whose event satisfies Test.
Positions(Test(_)) == {i \in DOMAIN trace : Test(trace[i])}

\* The alembic_version table of the live connection of the active context.
Table == db[_context.impl.connection]
TableBefore == pre[_context.impl.connection]

\* C1: in a live run without transactional DDL whose k-th step's apply raised,
\* the persisted pointer is the rev of step k-1 (the pointer the run started
\* from when k = 1), held in at most one row, and the pointer writes issued
\* are exactly those of steps 1..k-1, in order.
C1_NonTransactionalAtomicity ==
    (RunEnded /\ result.error = "StepError" /\ Live /\ ~Transactional(_context)) =>
        LET k == Len(steps)
        IN  /\ k >= 1
            /\ Scalar(Table) = IF k = 1 THEN Scalar(TableBefore) ELSE steps[k - 1].to
            /\ Len(Table.rows) <= 1
            /\ Writes = [i \in 1 .. (k - 1) |-> StepWrite(i)]

\* A third step fails after two steps moved the pointer twice.
C1_Witness ==
    /\ RunEnded /\ result.error = "StepError" /\ Live /\ ~Transactional(_context)
    /\ Len(steps) = 3
    /\ steps[1].to # steps[2].to
    /\ Scalar(TableBefore) # steps[2].to
    /\ Table.rows = <<steps[2].to>>

\* C2: a run with transactional DDL in which every step succeeds (one step or
\* more) calls _update_current_rev exactly once, after the last step's apply,
\* from the revision read at the start of the run to the last step's rev, and
\* issues at most one pointer statement; while it runs, the live pointer rows
\* are those the run started with.
C2_TransactionalBatching ==
    /\ (RunSucceeded /\ Transactional(_context) /\ Len(steps) >= 1) =>
          /\ Writes = <<Ev("VersionStore", "write", anchor, steps[Len(steps)].to)>>
          /\ \A w \in Positions(IsWrite), a \in Positions(IsApply) : a < w
          /\ Cardinality(Positions(IsApply)) = Len(steps)
          /\ Cardinality(Positions(IsPointerStmt)) <= 1
          /\ \A p \in Positions(IsPointerStmt), w \in Positions(IsWrite) : w < p
    /\ (pc # "idle" /\ Transactional(_context)) =>
          /\ Positions(IsPointerStmt) = {}
          /\ Live /\ _context.impl.connection # None => Table.rows = TableBefore.rows

\* Three steps through two intermediate revisions, one write at the end.
C2_Witness ==
    /\ RunSucceeded /\ Transactional(_context) /\ Live
    /\ Len(steps) = 3
    /\ steps[1].to # anchor /\ steps[1].to # steps[3].to
    /\ anchor # steps[3].to
    /\ steps[3].to # None
    /\ Table.rows = <<steps[3].to>>

\* C3: in every state the alembic_version table of every connection holds at
\* most one row, and holds no row exactly when the current revision
\* (the selected scalar) is None.
C3_SingleRecord ==
    \A c \in Conns :
        /\ Len(db[c].rows) <= 1
        /\ (db[c].rows = <<>>) <=> (Scalar(db[c]) = None)

\* A run found one row and left one row with another revision.
C3_Witness ==
    /\ RunEnded /\ Live /\ _context.impl.connection # None
    /\ Len(steps) >= 2
    /\ TableBefore.rows # <<>>
    /\ Table.rows # <<>>
    /\ Table.rows # TableBefore.rows

\* C4 as claimed: a run whose sequencer yields no step issues no write of any
\* kind, the creation of the table included, and leaves every database as it
\* found it. (Fails: the read of a live run creates a missing table.)
C4_Original ==
    (RunSucceeded /\ steps = <<>>) =>
        /\ db = pre
        /\ Positions(IsPointerStmt) = {}
        /\ Positions(IsStorageStmt) = {}

\* C4, amended: a run whose sequencer yields no step calls _update_current_rev
\* never, issues no insert, update, delete or drop, and leaves the rows of
\* every table as they were. In as_sql mode it issues no create either and
\* changes no database; a live run creates the table exactly when it did not
\* exist, and changes nothing else.
C4_NoOpRun ==
    (RunSucceeded /\ steps = <<>>) =>
        /\ Writes = <<>>
        /\ Positions(IsPointerStmt) = {}
        /\ \A i \in Positions(IsStorageStmt) : trace[i].op = "create"
        /\ \A c \in Conns : db[c].rows = pre[c].rows
        /\ SqlMode(_context) => db = pre /\ Positions(IsStorageStmt) = {}
        /\ Live =>
              /\ db = [pre EXCEPT ![_context.connection].exists = TRUE]
              /\ (Positions(IsStorageStmt) # {}) <=> ~TableBefore.exists

\* A live run with no step on a fresh database: the table appears.
C4_Witness ==
    /\ RunSucceeded /\ steps = <<>> /\ Live
    /\ ~TableBefore.exists
    /\ Table.exists

\* C5: a successful live run (either durability) that starts from no pointer
\* row and whose last step reaches a revision R leaves exactly the one row R;
\* a successful live run that starts from a pointer row and whose last step
\* reaches None leaves no row.
C5_PointerLifecycle ==
    (RunSucceeded /\ Live /\ Len(steps) >= 1) =>
        LET last == steps[Len(steps)].to
        IN  /\ (TableBefore.rows = <<>> /\ last # None) => Table.rows = <<last>>
            /\ (TableBefore.rows # <<>> /\ last = None) => Table.rows = <<>>

\* The way back: a run found the row b2, which an earlier run from None had
\* created, and two steps down to None removed it.
C5_Witness ==
    /\ RunSucceeded /\ Live
    /\ TableBefore.rows = <<"b2">>
    /\ Len(steps) = 2
    /\ steps[2].to = None
    /\ Table.rows = <<>>

\* C7: a context in as_sql mode never touches a connection: no statement is
\* executed and nothing is selected on any connection, every database stays
\* as it was, the run starts from the starting_rev option (None when absent),
\* and every pointer statement, create and drop is text on the context's
\* output buffer.
C7_RenderingIsolation ==
    (_context # NoContext /\ SqlMode(_context)) =>
        /\ Positions(OnConnection) = {}
        /\ db = pre
        /\ (pc # "idle" \/ RunEnded) =>
              anchor = Get(_context_opts, "starting_rev", None)
        /\ \A i \in Positions(IsPointerStmt) \cup Positions(IsStorageStmt) :
              trace[i].tgt = _context.output_buffer

\* An as_sql run from None up and back down: create, insert and drop are all
\* text on the output buffer, given a connection at configure or not.
C7_Witness ==
    /\ RunSucceeded /\ SqlMode(_context)
    /\ _context.impl.connection = "c1"
    /\ Len(steps) = 2
    /\ \E i, j, k \in DOMAIN trace :
          /\ i < j /\ j < k
          /\ trace[i].op = "create" /\ trace[i].tgt = "stdout"
          /\ trace[j].op = "insert" /\ trace[j].tgt = "stdout"
          /\ trace[k].op = "drop" /\ trace[k].tgt = "stdout"

\* The text written to the output buffer of the active context.
Output == Events(OnSink)

\* C8: the output of a run that completed holds a BEGIN; and a COMMIT; marker
\* exactly when the context is in as_sql mode with transactional DDL; then
\* BEGIN; is the first line, COMMIT; the last, each occurs once, and in as_sql
\* mode the headers are those of the applied steps, one each, in order. A live
\* run writes nothing to any output buffer.
C8_TransactionMarkers ==
    RunSucceeded =>
        LET marked == SqlMode(_context) /\ Transactional(_context)
            begins == {i \in DOMAIN Output : Output[i].op = "BEGIN;"}
            commits == {i \in DOMAIN Output : Output[i].op = "COMMIT;"}
        IN  /\ (begins # {}) <=> marked
            /\ (commits # {}) <=> marked
            /\ marked => begins = {1} /\ commits = {Len(Output)}
            /\ SqlMode(_context) =>
                  Events(IsHeader) =
                      [i \in 1 .. Len(steps) |->
                          Ev(_context.output_buffer, "header", steps[i].from, steps[i].to)]
            /\ ~SqlMode(_context) => Output = <<>>

\* A completed as_sql run of two steps with transactional DDL.
C8_Witness ==
    /\ RunSucceeded /\ SqlMode(_context) /\ Transactional(_context)
    /\ Len(steps) = 2
    /\ Output[1].op = "BEGIN;"
    /\ Output[Len(Output)].op = "COMMIT;"
    /\ Len(Events(IsHeader)) = 2

\* The calls configure(connection=c, starting_rev="a1").
ConflictArgs ==
    {[connection |-> c, url |-> None, dialect_name |-> None,
      transactional_ddl |-> None, output_buffer |-> None,
      starting_rev |-> "a1", tag |-> None] : c \in Conns}

\* configure is given a live connection and a starting revision, in a registry
\* whose options make the context a live one and hold the fn a Context needs.
ConflictingCall(a) ==
    /\ "fn" \in DOMAIN _context_opts
    /\ ~Truthy(Get(_context_opts, "as_sql", PyFalse))
    /\ configure(a)

\* C6 as claimed: configure with a live connection and a starting revision
\* fails with the configuration error (CommandError) and installs no context.
\* (Fails: configure returns and the context is installed.)
C6_Original ==
    [][result'.op = "configure" =>
          \A a \in ConflictArgs :
              ConflictingCall(a) =>
                  /\ result'.error = "CommandError"
                  /\ _context' = _context]_vars

\* C6, amended: configure with a live connection and a starting revision
\* succeeds and installs a live context that holds both; every run of a live
\* context that holds a starting revision fails with CommandError at its
\* first read: no step is yielded or applied, nothing is read, written or
\* emitted.
C6_ConfigConflict ==
    [][/\ result'.op = "configure" =>
             \A a \in ConflictArgs :
                 ConflictingCall(a) =>
                     /\ result' = Ok("configure", None)
                     /\ Live'
                     /\ _context'.connection = a.connection
                     /\ _context'._start_from_rev = a.starting_rev
       /\ (/\ pc = "idle"
           /\ Live
           /\ Truthy(_context._start_from_rev)
           /\ result'.op = "run_migrations"
           /\ RunBegin \/ RunBeginReadFails) =>
             /\ result' = Raised("run_migrations", "CommandError")
             /\ pc' = "idle"
             /\ steps' = <<>>
             /\ trace' = <<>>
             /\ db' = db]_vars

\* A run of a context configured with a live connection and a starting
\* revision has just failed.
C6_Witness ==
    /\ RunEnded /\ Live
    /\ _context.connection \in Conns
    /\ _context._start_from_rev = "a1"
    /\ result.error = "CommandError"
    /\ steps = <<>>

\* C9: from every state with no context, get_context, run_migrations and
\* execute fail with an error, change neither the registry nor a database and
\* do nothing else; requires_connection and get_tag_argument succeed.
C9_NoContext ==
    [][(_context = NoContext /\ pc = "idle") =>
          /\ result'.op \in {"get_context", "run_migrations", "execute"} =>
                /\ result'.status = "error"
                /\ result'.error = "Exception"
                /\ pc' = "idle"
                /\ trace' = <<>>
                /\ UNCHANGED <<registry, db>>
          /\ result'.op \in {"requires_connection", "get_tag_argument"} =>
                /\ result'.status = "ok"
                /\ UNCHANGED <<registry, db>>]_vars

\* execute has just failed after _opts, a configure that installed a context,
\* and _clear.
C9_Witness ==
    /\ _context = NoContext
    /\ result = Raised("execute", "Exception")
    /\ config = "cfg"
    /\ _script = None
    /\ _context_opts = EmptyDict
    /\ ncalls = 4

\* The starting revision available to get_starting_revision_argument: the
\* context's when there is a context, else the starting_rev option.
StartingRevision ==
    IF _context # NoContext THEN _context._start_from_rev
    ELSE Get(_context_opts, "starting_rev", None)

C11_MostRecentConfigureWins ==
    [][/\ result'.op = "configure" =>
             \A a \in ReconfigureArgs :
                 (configure(a) /\ "fn" \in DOMAIN _context_opts) =>
                     /\ result' = Ok("configure", None)
                     /\ _context' = ConfigureContext(_context_opts', _script, a)
                     /\ _context'.impl.connection = a.connection
                     /\ get_context(_context') = Ok("get_context", "context")
       /\ _context' # _context => result'.op \in {"configure", "_clear"}
       /\ (result'.op \in {"run_migrations", "execute"} /\ _context = NoContext) =>
             trace' = <<>> /\ db' = db
       /\ (result'.op \in {"run_migrations", "execute"} /\ _context # NoContext) =>
             /\ \A i \in DOMAIN trace' :
                   /\ OnConnection(trace'[i]) =>
                         Live /\ trace'[i].tgt = _context.connection
                   /\ OnSink(trace'[i]) =>
                         SqlMode(_context) /\ trace'[i].tgt = _context.output_buffer
             /\ \A c \in Conns :
                   (SqlMode(_context) \/ c # _context.connection) => db'[c] = db[c]]_vars

\* The context on c1 was replaced by a live one on c2, and its run applied
\* steps and wrote the pointer on c2; the database of c1 has seen nothing.
C11_Witness ==
    /\ RunSucceeded /\ Live
    /\ _context.connection = "c2"
    /\ Len(steps) >= 1
    /\ \E i \in Positions(IsApply) : trace[i].tgt = "c2"
    /\ \E i \in Positions(IsPointerStmt) : trace[i].tgt = "c2"
    /\ db["c2"].rows # <<>>
    /\ db["c1"] = NoTable

\* Calls of configure with no connection, no url and no dialect_name: with no
\* option at all, and with options to record.
NoTargetArgs ==
    {[connection |-> None, url |-> None, dialect_name |-> None,
      transactional_ddl |-> o[1], output_buffer |-> o[2],
      starting_rev |-> o[3], tag |-> o[4]] :
        o \in {<<None, None, None, None>>,
               <<PyFalse, "buf", None, None>>,
               <<None, None, "a1", "t">>}}

\* C12: configure with no connection, no url and no dialect_name raises
\* Exception and leaves the registry as it was: the options hold what they
\* held, none of the options of the call is recorded, and the active context
\* (or the absence of one) stays; no database is touched. Conversely, a
\* configure that raised Exception changed nothing in the registry.
C12_MissingTarget ==
    [][result'.op = "configure" =>
          /\ \A a \in NoTargetArgs :
                configure(a) =>
                    /\ result' = Raised("configure", "Exception")
                    /\ _context_opts' = _context_opts
                    /\ _context' = _context
                    /\ UNCHANGED <<config, _script, db>>
          /\ result'.error = "Exception" => UNCHANGED <<registry, db>>]_vars

\* configure has just failed for want of a target while a context was
\* active: the context is still there and the options hold what _opts gave.
C12_Witness ==
    /\ result = Raised("configure", "Exception")
    /\ _context # NoContext
    /\ get_context(_context).status = "ok"
    /\ DOMAIN _context_opts = {"fn", "as_sql"}

\* The revisions of the steps whose change(**kw) has returned in this run.
AppliedRevs == {trace[i].new : i \in Positions(IsApply)}

\* A run of the active context is in progress or was the last call.
InRun == pc # "idle" \/ RunEnded

\* C13: in every state of a live run and after it, however it ended, with or
\* without transactional DDL, the pointer row holds either what it held when
\* the run started or the rev of a step whose change(**kw) has returned in
\* this run; the steps whose change has returned are the steps yielded,
\* without the last one while it is being applied or when it raised.
C13_TruthfulPointer ==
    (InRun /\ Live /\ _context.connection # None) =>
        LET done == IF pc = "apply" \/ result.error = "StepError"
                    THEN Len(steps) - 1 ELSE Len(steps)
        IN  /\ Scalar(Table) \in {Scalar(TableBefore)} \cup AppliedRevs
            /\ AppliedRevs = {steps[i].to : i \in 1 .. done}
            /\ Len(Events(IsApply)) = done

\* A run without transactional DDL whose second pointer statement failed in
\* the driver: two steps are applied, the pointer is the rev of the first.
C13_Witness ==
    /\ RunEnded /\ Live /\ ~Transactional(_context)
    /\ result.error = "DriverError"
    /\ Len(steps) = 2
    /\ Len(Events(IsApply)) = 2
    /\ steps[1].to # Scalar(TableBefore)
    /\ steps[2].to # steps[1].to
    /\ Table.rows = <<steps[1].to>>

\* The last call was a run of the active context and it ended with an error.
RunFailed == RunEnded /\ result.status = "error"

\* C14: an error raised in a run ends it there. The error that leaves
\* run_migrations is the one raised (by the read, the sequencer, change(**kw)
\* or the pointer statement); the step that fails changes no database and
\* adds nothing to what the run did but the call of _update_current_rev
\* whose statement failed; the next thing that happens is another call of a
\* module-level function. The failed run applied the steps before the failure
\* only, dropped no table and wrote no COMMIT; and with transactional DDL a
\* run in which change(**kw) raised never called _update_current_rev.
C14_AbortOnFailure ==
    [][/\ (pc # "idle" /\ result'.status = "error") =>
             /\ pc' = "idle"
             /\ result'.op = "run_migrations"
             /\ result'.error =
                   IF pc = "apply" THEN "StepError"
                   ELSE IF pc = "update" THEN "DriverError"
                   ELSE IF trace' = trace THEN "SequencerError" ELSE "DriverError"
             /\ UNCHANGED <<registry, db, steps>>
             /\ \/ trace' = trace
                \/ /\ result'.error = "DriverError"
                   /\ \E o, n \in RevId :
                         trace' = Append(trace, Ev("VersionStore", "write", o, n))
       /\ (pc = "idle" /\ result'.op = "run_migrations" /\ result'.status = "error") =>
             /\ pc' = "idle"
             /\ result'.error \in
                   {"Exception", "CommandError", "UnboundExecutionError", "DriverError"}
             /\ steps' = <<>>
             /\ UNCHANGED <<registry, db>>
       /\ RunFailed => ncalls' = ncalls + 1
       /\ RunFailed' =>
             /\ \A i \in DOMAIN trace' :
                   trace'[i].op \notin {"drop", "COMMIT;"}
             /\ Len(SelectSeq(trace', IsApply)) =
                   IF result'.error = "StepError" THEN Len(steps') - 1 ELSE Len(steps')
             /\ (Transactional(_context) /\ result'.error = "StepError") =>
                   SelectSeq(trace', IsWrite) = <<>>]_vars

\* A live run with transactional DDL whose second step raised: one step is
\* applied, _update_current_rev was not called and the pointer is untouched.
C14_Witness ==
    /\ RunFailed /\ Live /\ Transactional(_context)
    /\ result.error = "StepError"
    /\ Len(steps) = 2
    /\ Len(Events(IsApply)) = 1
    /\ Writes = <<>>
    /\ steps[1].to # Scalar(TableBefore)
    /\ Table.rows = TableBefore.rows

IsApplyOrWrite(e) == IsApply(e) \/ IsWrite(e)

\* Where the statements of the active context go: its connection, or its
\* output buffer in as_sql mode.
Target == IF SqlMode(_context) THEN _context.output_buffer ELSE _context.connection

\* C15: a successful run of N steps without transactional DDL calls
\* _update_current_rev N times, with (prev_rev, rev) of step i after the
\* change of step i returned and before the change of step i+1 is called:
\* applies and writes alternate, the write of the last step is the last of
\* them. From no revision through a1 to b2 the pointer statements are an
\* insert of a1, then an update to b2.
C15_InterleavingOrder ==
    (RunSucceeded /\ ~Transactional(_context)) =>
        LET N == Len(steps)
            E == Events(IsApplyOrWrite)
        IN  /\ Writes = [i \in 1 .. N |-> StepWrite(i)]
            /\ Len(E) = 2 * N
            /\ \A i \in 1 .. N :
                  /\ E[2 * i - 1] = Ev(Target, "ddl", steps[i].from, steps[i].to)
                  /\ E[2 * i] = StepWrite(i)
            /\ steps = <<[from |-> None, to |-> "a1"], [from |-> "a1", to |-> "b2"]>> =>
                  Events(IsPointerStmt) =
                      <<Ev(Target, "insert", None, "a1"), Ev(Target, "update", None, "b2")>>

\* The scenario on a live connection: None -> a1 -> b2 without transactional
\* DDL inserted a1, then updated the row to b2.
C15_Witness ==
    /\ RunSucceeded /\ Live /\ ~Transactional(_context)
    /\ anchor = None
    /\ steps = <<[from |-> None, to |-> "a1"], [from |-> "a1", to |-> "b2"]>>
    /\ Events(IsPointerStmt) =
          <<Ev("c1", "insert", None, "a1"), Ev("c1", "update", None, "b2")>>
    /\ Table.rows = <<"b2">>

\* The statement one call write(old, new) of the active context issues, as
\* the claim states it: none, a delete, an insert of new or an update to new.
WriteStatement(old, new) ==
    IF old = new THEN <<>>
    ELSE IF new = None THEN <<Ev(Target, "delete", None, None)>>
    ELSE IF old = None THEN <<Ev(Target, "insert", None, new)>>
    ELSE <<Ev(Target, "update", None, new)>>

\* C16: every call _update_current_rev(old, new), for every pair of revisions
\* or None, issues nothing when old = new, else a delete when new is None,
\* else an insert of new when old is None, else an update to new: one outcome,
\* at most one statement. On a live connection the table is then unchanged,
\* emptied, one row longer with new in it, or as long as before with new in
\* every row. The call is the one the loop makes after a step (line 99).
C16_WriteCases ==
    [][(pc = "update" /\ pc' = "next" /\ ~Transactional(_context)) =>
          LET old == prev_rev
              new == rev
          IN  /\ trace' = trace \o <<Ev("VersionStore", "write", old, new)>>
                                \o WriteStatement(old, new)
              /\ Len(WriteStatement(old, new)) <= 1
              /\ SqlMode(_context) => db' = db
              /\ Live =>
                    /\ \A c \in Conns \ {_context.connection} : db'[c] = db[c]
                    /\ Table'.exists = Table.exists
                    /\ Table'.rows =
                          IF old = new THEN Table.rows
                          ELSE IF new = None THEN <<>>
                          ELSE IF old = None THEN Append(Table.rows, new)
                          ELSE [i \in DOMAIN Table.rows |-> new]]_vars

\* Three calls in one live run: write(None, a1) inserted, write(a1, a1) did
\* nothing, write(a1, None) deleted.
C16_Witness ==
    /\ RunSucceeded /\ Live /\ ~Transactional(_context)
    /\ Writes = <<Ev("VersionStore", "write", None, "a1"),
                  Ev("VersionStore", "write", "a1", "a1"),
                  Ev("VersionStore", "write", "a1", None)>>
    /\ Events(IsPointerStmt) =
          <<Ev("c1", "insert", None, "a1"), Ev("c1", "delete", None, None)>>
    /\ Table.rows = <<>>

IsCreate(e) == e.op = "create"
IsDrop(e) == e.op = "drop"
IsCommit(e) == e.op = "COMMIT;"

\* C17: in a run in as_sql mode, one create of the table is emitted, before
\* the header and the change of the first step, exactly when a step is
\* yielded and the first step starts from no revision; one drop is emitted,
\* after every change, every call of _update_current_rev and every pointer
\* statement and before COMMIT;, exactly when the run completed, applied a
\* step and ended at no revision. In a live run the loop emits neither: there
\* is no drop, and the only create is the one of the read that starts the
\* run, issued first and followed by the select, when the table did not exist.
C17_StorageLifecycle ==
    /\ (InRun /\ SqlMode(_context)) =>
          /\ Cardinality(Positions(IsCreate)) <= 1
          /\ (Positions(IsCreate) # {}) <=> (Len(steps) >= 1 /\ steps[1].from = None)
          /\ \A c \in Positions(IsCreate) :
                \A j \in Positions(IsHeader) \cup Positions(IsApply) : c < j
          /\ Cardinality(Positions(IsDrop)) <= 1
          /\ (Positions(IsDrop) # {}) <=>
                (RunSucceeded /\ Len(steps) >= 1 /\ steps[Len(steps)].to = None)
          /\ \A d \in Positions(IsDrop) :
                /\ \A j \in Positions(IsApply) \cup Positions(IsWrite)
                            \cup Positions(IsPointerStmt) : j < d
                /\ \A j \in Positions(IsCommit) : d < j
          /\ \A i \in Positions(IsCreate) \cup Positions(IsDrop) :
                trace[i].tgt = _context.output_buffer
    /\ (InRun /\ Live) =>
          /\ Positions(IsDrop) = {}
          /\ Positions(IsCreate) \subseteq {1}
          /\ Positions(IsCreate) # {} =>
                /\ ~TableBefore.exists
                /\ trace[2].op = "select"

\* An as_sql run with transactional DDL from no revision up to a1 and back:
\* BEGIN;, the create, the two steps, the drop, COMMIT;.
C17_Witness ==
    /\ RunSucceeded /\ SqlMode(_context) /\ Transactional(_context)
    /\ steps = <<[from |-> None, to |-> "a1"], [from |-> "a1", to |-> None]>>
    /\ trace[1].op = "BEGIN;"
    /\ trace[2].op = "create"
    /\ trace[3].op = "header"
    /\ trace[Len(trace) - 1].op = "drop"
    /\ trace[Len(trace)].op = "COMMIT;"

\* C18: a run that starts, the second of two runs of one context included,
\* hands the sequencer what _current_rev() returns and nothing of an earlier
\* run: on a live connection the pointer row as the store holds it when the
\* run starts (what the earlier run left there, however it ended), in as_sql
\* mode the starting revision the context was built with, the same as in the
\* run before. The locals current_rev and rev start as False and the first
\* step the sequencer yields starts from the revision so read.
C18_NoStateAcrossRuns ==
    [][/\ (pc = "idle" /\ result'.op = "run_migrations" /\ pc' = "next") =>
             /\ Live => anchor' = Scalar(db[_context.connection])
             /\ SqlMode(_context) => anchor' = _context._start_from_rev
             /\ (SqlMode(_context) /\ RunEnded) => anchor' = anchor
             /\ current_rev' = PyFalse
             /\ rev' = PyFalse
             /\ steps' = <<>>
             /\ pre' = db
       /\ (pc = "next" /\ pc' = "apply" /\ steps = <<>>) =>
             /\ steps'[1].from = anchor
             /\ current_rev' = anchor]_vars

\* The second run of a live context has started: it was handed a1, the row the
\* first run left in the store, and its locals are those of a new call.
C18_Witness ==
    /\ ncalls = 4
    /\ pc = "next" /\ Live
    /\ steps = <<>> /\ current_rev = PyFalse /\ rev = PyFalse
    /\ anchor = "a1"
    /\ Table.rows = <<"a1">>
    /\ TableBefore.rows = <<"a1">>

\* The databases after the pointer writes of a run over the steps s that
\* started with the databases d, without transactional DDL: one call of
\* _update_current_rev(prev_rev, rev) per step (line 99).
RECURSIVE StoreAfterPerStep(_, _, _)
StoreAfterPerStep(ctx, d, s) ==
    IF s = <<>> THEN d
    ELSE StoreAfterPerStep(ctx,
             _update_current_rev(ctx, d, <<>>, Head(s).from, Head(s).to).db,
             Tail(s))

\* The same with transactional DDL: one call of _update_current_rev from the
\* first step's prev_rev to the last step's rev, when there was a step
\* (lines 102-104).
StoreAfterDeferred(ctx, d, s) ==
    IF s = <<>> THEN d
    ELSE _update_current_rev(ctx, d, <<>>, s[1].from, s[Len(s)].to).db

\* The databases as the read that starts a live run of the active context
\* leaves them: the table exists.
AfterRead == [pre EXCEPT ![_context.connection].exists = TRUE]

\* C19: for every pointer a live run starts from and every chain of steps
\* the sequencer yields from it (each step starts where the one before ended;
\* chains that come back to where they started included), when every step
\* succeeds the databases after the run are the same with and without
\* transactional DDL: the per-step writes and the one deferred write lead
\* from the same start to the same tables, and the run, in whichever of the
\* two modes its context is, ends with exactly these.
C19_DurabilityEquivalence ==
    (RunSucceeded /\ Live) =>
        /\ StoreAfterPerStep(_context, AfterRead, steps)
              = StoreAfterDeferred(_context, AfterRead, steps)
        /\ db = StoreAfterPerStep(_context, AfterRead, steps)
        /\ db = StoreAfterDeferred(_context, AfterRead, steps)

\* A run with transactional DDL from a1 to b2 and back to a1: the deferred
\* write is write(a1, a1), no statement, and the row is a1 as the two updates
\* of the per-step writes would leave it.
C19_Witness ==
    /\ RunSucceeded /\ Live /\ Transactional(_context)
    /\ steps = <<[from |-> "a1", to |-> "b2"], [from |-> "b2", to |-> "a1"]>>
    /\ Writes = <<Ev("VersionStore", "write", "a1", "a1")>>
    /\ Positions(IsPointerStmt) = {}
    /\ Table.rows = <<"a1">>
    /\ StoreAfterPerStep(_context, AfterRead, steps)[_context.connection].rows = <<"a1">>

\* The options configure records.
OptionKeys == {"transactional_ddl", "output_buffer", "starting_rev", "tag"}

====
